---- MODULE Spec2Model ----
(***************************************************************************)
(* Model of the Baqend webpack plugin (src/index.js): the constructor, the *)
(* deployment run started by webpack's "done" hook, the code-directory     *)
(* phase and the asset phase, with every asynchronous filesystem and       *)
(* remote call as a step that the environment completes or fails.          *)
(*                                                                         *)
(* JavaScript strings are sequences of one-character strings, so that the  *)
(* regular expressions, String.replace and the glob matcher are computed   *)
(* and not assumed.                                                        *)
(***************************************************************************)
EXTENDS Integers, Sequences, FiniteSets, Bags, TLC

\* ------------------------------------------------------------------------
\* Bounds of the model

\* the largest asset manifest a build hands to the plugin
MaxAssets == 2

\* ------------------------------------------------------------------------
\* JavaScript values

\* the values false and undefined; no string (sequence of characters) equals them
JsFalse == <<"false">>
JsUndefined == <<"undefined">>

\* JavaScript truthiness of a string, false or undefined (the empty string is falsy)
Truthy(v) == v \notin {JsFalse, JsUndefined, <<>>}

\* a || b
JsOr(a, b) == IF Truthy(a) THEN a ELSE b

StartsWith(s, p) == Len(p) <= Len(s) /\ SubSeq(s, 1, Len(p)) = p

EndsWith(s, p) == Len(p) <= Len(s) /\ SubSeq(s, Len(s) - Len(p) + 1, Len(s)) = p

\* the positions of s at which p occurs
Occurrences(s, p) == {i \in 1..(Len(s) - Len(p) + 1) : SubSeq(s, i, i + Len(p) - 1) = p}

Min(S) == CHOOSE x \in S : \A y \in S : x <= y

\* String.prototype.replace(p, '') with a string p: the first occurrence
\* of p, wherever it is, is removed
ReplaceFirst(s, p) ==
    IF Occurrences(s, p) = {} THEN s
    ELSE LET i == Min(Occurrences(s, p))
         IN SubSeq(s, 1, i - 1) \o SubSeq(s, i + Len(p), Len(s))

DotJs == <<".", "j", "s">>

\* fileName.replace(/\.js$/, '')
StripDotJs(s) == IF EndsWith(s, DotJs) THEN SubSeq(s, 1, Len(s) - 3) ELSE s

\* fileName.replace(/.js$/, ''): the dot is unescaped and stands for any
\* character but a line terminator
StripAnyJs(s) ==
    IF Len(s) >= 3 /\ EndsWith(s, <<"j", "s">>) THEN SubSeq(s, 1, Len(s) - 3) ELSE s

\* ------------------------------------------------------------------------
\* The glob matcher behind anymatch(pattern, name)

GlobMeta == {"*", "{", "}"}

\* the alternatives of a brace body, split at the commas
RECURSIVE SplitComma(_)
SplitComma(body) ==
    IF Occurrences(body, <<",">>) = {} THEN {body}
    ELSE LET i == Min(Occurrences(body, <<",">>))
         IN {SubSeq(body, 1, i - 1)} \cup SplitComma(SubSeq(body, i + 1, Len(body)))

\* glob semantics: * is a run of characters of one path segment, ** any
\* run of characters, a leading "**/" also nothing, ? one character of a
\* segment, {x,y} either alternative
RECURSIVE GlobMatch(_, _)
GlobMatch(p, s) ==
    IF p = <<>> THEN s = <<>>
    ELSE IF StartsWith(p, <<"*", "*">>) THEN
        \/ \E k \in 0..Len(s) : GlobMatch(SubSeq(p, 3, Len(p)), SubSeq(s, k + 1, Len(s)))
        \/ /\ StartsWith(p, <<"*", "*", "/">>)
           /\ GlobMatch(SubSeq(p, 4, Len(p)), s)
    ELSE IF p[1] = "*" THEN
        \E k \in 0..Len(s) :
            /\ \A i \in 1..k : s[i] # "/"
            /\ GlobMatch(Tail(p), SubSeq(s, k + 1, Len(s)))
    ELSE IF p[1] = "?" THEN
        s # <<>> /\ s[1] # "/" /\ GlobMatch(Tail(p), Tail(s))
    ELSE IF p[1] = "{" /\ Occurrences(p, <<"}">>) # {} THEN
        LET close == Min(Occurrences(p, <<"}">>))
        IN \E alt \in SplitComma(SubSeq(p, 2, close - 1)) :
               GlobMatch(alt \o SubSeq(p, close + 1, Len(p)), s)
    ELSE s # <<>> /\ s[1] = p[1] /\ GlobMatch(Tail(p), Tail(s))

\* anymatch with one string matcher: the very string, or a glob match
anymatch(pattern, name) == pattern = name \/ GlobMatch(pattern, name)

\* the start of a pattern before its first *, { or }
LiteralUpToMeta(pattern) ==
    LET metas == {k \in 1..Len(pattern) : pattern[k] \in GlobMeta}
    IN IF metas = {} THEN pattern ELSE SubSeq(pattern, 1, Min(metas) - 1)

\* a prefix that is not cut back to the last "/"
DirPrefixUpToMeta(pattern) == IF ~Truthy(pattern) THEN <<>> ELSE LiteralUpToMeta(pattern)

\* (filePattern && filePattern.match(/^([^*{}]*)\//)) || [''], first element:
\* the whole match, which is the longest start of the pattern that ends in
\* "/" and has no *, { or } before that "/"
DirPrefix(pattern) ==
    IF ~Truthy(pattern) THEN <<>>
    ELSE LET ends == {k \in 1..Len(pattern) :
                         /\ pattern[k] = "/"
                         /\ \A i \in 1..(k - 1) : pattern[i] \notin GlobMeta}
         IN IF ends = {} THEN <<>>
            ELSE SubSeq(pattern, 1, CHOOSE k \in ends : \A j \in ends : j <= k)

\* `/${bucket}/${assetName.replace(prefix, '')}`
RemotePath(bkt, prefix, assetName) == <<"/">> \o bkt \o <<"/">> \o ReplaceFirst(assetName, prefix)

\* the inclusion test without the guard on a configured pattern
SkippedUnguarded(pattern, assetName) == ~anymatch(pattern, assetName)

\* the inclusion test of uploadFiles
Skipped(pattern, assetName) == Truthy(pattern) /\ ~anymatch(pattern, assetName)

\* ------------------------------------------------------------------------
\* Names of the model's world

Www == <<"w", "w", "w">>
CodeDirName == <<"c">>

ModuleT == <<"m", "o", "d", "u", "l", "e">>
UpdateT == <<"u", "p", "d", "a", "t", "e">>
InsertT == <<"i", "n", "s", "e", "r", "t">>
DeleteT == <<"d", "e", "l", "e", "t", "e">>
ValidateT == <<"v", "a", "l", "i", "d", "a", "t", "e">>
OtherT == <<"o", "t", "h", "e", "r">>

\* a list of code types that lets any handler file through
codeTypesWithOther == {ModuleT, UpdateT, InsertT, DeleteT, ValidateT, OtherT}

\* const codeTypes = ['module', 'update', 'insert', 'delete', 'validate']
codeTypes == {ModuleT, UpdateT, InsertT, DeleteT, ValidateT}

MJs == <<"m">> \o DotJs
TJs == <<"T">> \o DotJs
TDir == <<"T">>
UDir == <<"U">>

\* the buckets the remote client has
DbBuckets == {TDir}

\* this.db[bucket] is truthy
HasBucket(d) == d \in DbBuckets

\* the code directories of the model: the plain files and the directories
\* of the top level, and the files inside each directory
CodeTrees ==
    { [files |-> {MJs}, dirs |-> {TDir}, inside |-> (TDir :> {UpdateT \o DotJs, OtherT \o DotJs})],
      [files |-> {}, dirs |-> {TDir}, inside |-> (TDir :> {ModuleT \o DotJs, UpdateT \o DotJs})],
      [files |-> {TJs}, dirs |-> {TDir}, inside |-> (TDir :> {ModuleT \o DotJs})],
      [files |-> {MJs}, dirs |-> {UDir}, inside |-> (UDir :> {UpdateT \o DotJs})] }

\* the file patterns a configuration may carry
FilePatterns ==
    { JsUndefined,
      <<"d", "/", "*">>,
      <<"d", "/", "*", "*">>,
      <<"?", "/", "*", "*">>,
      <<"d", "/", "{", "a", ",", "b", "}">>,
      <<"d", "/", "a", "*">> }

\* the asset names a build may produce
AssetNames ==
    { <<"d", "/", "a">>,
      <<"b">>,
      <<"d", "/", "d", "/", "a">>,
      <<"a", "/", "?", "/", "b">> }

Manifests == {m \in SUBSET AssetNames : Cardinality(m) <= MaxAssets}

\* ------------------------------------------------------------------------
\* State

VARIABLES
    options,      \* the argument of the constructor
    bucket,       \* this.bucket: a string or false
    filePattern,  \* this.filePattern: a string or undefined
    codeDir,      \* this.codeDir: a string or false
    tree,         \* the code directory on disk
    isConnected,  \* this.isConnected, the login promise: pending, resolved, rejected
    pc,           \* where executeDeployment stands
    raised,       \* the promise of executeDeployment is rejected
    assets,       \* the asset names of the compilation
    entry,        \* per entry of the code directory: where its callback stands
    handler,      \* per file of a handler directory: where its callback stands
    item,         \* per asset: where its callback stands
    saveCalls,    \* the bag of db.code.saveCode calls
    uploadCalls,  \* the uploadFile calls
    prefix,       \* the prefix computed by uploadFiles, empty before it runs
    reads,        \* the files readFile has delivered
    faults,       \* the filesystem operations and remote calls that have failed
    log           \* the bag of console lines

vars == <<options, bucket, filePattern, codeDir, tree, isConnected, pc, raised, assets, entry,
          handler, item, saveCalls, uploadCalls, prefix, reads, faults, log>>

config == <<options, bucket, filePattern, codeDir, tree>>

Entries(t) == t.files \cup t.dirs

HandlerFiles(t) == {df \in t.dirs \X UNION {t.inside[d] : d \in t.dirs} : df[2] \in t.inside[df[1]]}

\* a file of the code directory exists; paths are sequences of names
FileExists(t, p) ==
    \/ Len(p) = 2 /\ p[2] \in t.files
    \/ Len(p) = 3 /\ p[2] \in t.dirs /\ p[3] \in t.inside[p[2]]

\* one console line
Line(kind, name, status, path) == [kind |-> kind, name |-> name, status |-> status, path |-> path]

StartLine == Line("uploading", <<>>, "", <<>>)
CodeDirFailedLine == Line("codeFailed", <<>>, "", <<>>)
HeaderLine == Line("header", <<>>, "", <<>>)
Row(a, status, path) == Line("row", a, status, path)

One(x) == SetToBag({x})

\* ------------------------------------------------------------------------
\* constructor({ app, bucket, filePattern, codeDir })

\* the bucket default without the test for false
ConstructBucketDefaulting(b) == JsOr(b, Www)

\* this.bucket = bucket === false ? bucket : (bucket || 'www')
ConstructBucket(b) == IF b = JsFalse THEN b ELSE JsOr(b, Www)

\* this.codeDir = codeDir || false
ConstructCodeDir(c) == JsOr(c, JsFalse)

Init ==
    /\ options \in [bucket : {JsFalse, JsUndefined, Www},
                    filePattern : FilePatterns,
                    codeDir : {JsFalse, JsUndefined, CodeDirName}]
    /\ bucket = ConstructBucket(options.bucket)
    /\ filePattern = options.filePattern
    /\ codeDir = ConstructCodeDir(options.codeDir)
    /\ tree \in CodeTrees
    /\ isConnected = "pending"
    /\ pc = "idle"
    /\ raised = FALSE
    /\ assets = {}
    /\ entry = [e \in Entries(tree) |-> "none"]
    /\ handler = [df \in HandlerFiles(tree) |-> "none"]
    /\ item = <<>>
    /\ saveCalls = EmptyBag
    /\ uploadCalls = {}
    /\ prefix = <<>>
    /\ reads = {}
    /\ faults = {}
    /\ log = EmptyBag

\* ------------------------------------------------------------------------
\* uploadFiles(filesToUpload), up to the first suspension of every callback

Included(as) == {a \in as : ~Skipped(filePattern, a)}

\* the outcome of Promise.all over asset callbacks that do not catch
FilesResultFailFast(newItem) ==
    [pc |-> IF /\ pc = "files"
               /\ \/ \E a \in DOMAIN newItem : newItem[a] = "failed"
                  \/ \A a \in DOMAIN newItem : newItem[a] \in {"skipped", "uploaded"}
            THEN "done" ELSE pc,
     raised |-> (raised \/ (pc = "files" /\ \E a \in DOMAIN newItem : newItem[a] = "failed"))]

\* the outcome of Promise.all over the asset callbacks, each of which
\* catches the failure of its own uploadFile
FilesResult(newItem) ==
    [pc |-> IF pc = "files" /\ \A a \in DOMAIN newItem : newItem[a] \in {"skipped", "uploaded", "failed"}
            THEN "done" ELSE pc,
     raised |-> raised]

StartFiles(as, lg) ==
    LET pre == DirPrefix(filePattern)
        inc == Included(as)
    IN /\ item' = [a \in as |-> IF a \in inc THEN "stat" ELSE "skipped"]
       /\ uploadCalls' = {[path |-> RemotePath(bucket, pre, a), existsAt |-> a] : a \in inc}
       /\ prefix' = pre
       /\ log' = lg (+) One(HeaderLine) (+) SetToBag({Row(a, "skipped", <<>>) : a \in as \ inc})
       /\ pc' = IF inc = {} THEN "done" ELSE "files"

\* executeDeployment after the code phase: if (this.bucket !== false) ...
AfterCode(as, lg) ==
    IF bucket # JsFalse THEN StartFiles(as, lg)
    ELSE pc' = "done" /\ log' = lg /\ UNCHANGED <<item, uploadCalls, prefix>>

\* executeDeployment after await this.isConnected
AfterConnected(as, lg) ==
    IF codeDir # JsFalse
    THEN pc' = "readdir" /\ log' = lg (+) One(StartLine) /\ UNCHANGED <<item, uploadCalls, prefix>>
    ELSE AfterCode(as, lg (+) One(StartLine))

\* ------------------------------------------------------------------------
\* The login promise and the start of a run

\* a gate that goes on whatever the outcome of the login
AwaitConnectedIgnoringFailure(c) == IF c = "pending" THEN "wait" ELSE "go"

\* await this.isConnected: wait while the promise is pending, go on when
\* it is resolved, throw when it is rejected
AwaitConnected(c) ==
    CASE c = "pending" -> "wait"
      [] c = "resolved" -> "go"
      [] c = "rejected" -> "throw"

\* executeDeployment at and after await this.isConnected, for manifest as
Connected(c, as) ==
    CASE AwaitConnected(c) = "wait" ->
            pc' = "connecting" /\ raised' = raised /\ UNCHANGED <<log, item, uploadCalls, prefix>>
      [] AwaitConnected(c) = "throw" ->
            pc' = "done" /\ raised' = TRUE /\ UNCHANGED <<log, item, uploadCalls, prefix>>
      [] AwaitConnected(c) = "go" ->
            AfterConnected(as, log) /\ raised' = raised

\* login(...).then((db) => this.db = db) resolves
LoginResolve ==
    /\ isConnected = "pending"
    /\ isConnected' = "resolved"
    /\ IF pc = "connecting" THEN Connected("resolved", assets)
       ELSE UNCHANGED <<pc, raised, log, item, uploadCalls, prefix>>
    /\ UNCHANGED <<config, assets, entry, handler, saveCalls, reads, faults>>

\* login(...) rejects
LoginReject ==
    /\ isConnected = "pending"
    /\ isConnected' = "rejected"
    /\ faults' = faults \cup {<<"login", <<>>>>}
    /\ IF pc = "connecting" THEN Connected("rejected", assets)
       ELSE UNCHANGED <<pc, raised, log, item, uploadCalls, prefix>>
    /\ UNCHANGED <<config, assets, entry, handler, saveCalls, reads>>

\* apply: the "done" hook of the compiler calls executeDeployment(compilation)
ExecuteDeployment ==
    /\ pc = "idle"
    /\ \E m \in Manifests :
        /\ assets' = m
        /\ Connected(isConnected, m)
    /\ UNCHANGED <<config, isConnected, entry, handler, saveCalls, reads, faults>>

\* ------------------------------------------------------------------------
\* uploadCodeDir

\* Promise.all over the entry callbacks has resolved: every callback returned
CodeSettle(newEntry, lg) ==
    IF pc = "code" /\ \A e \in DOMAIN newEntry : newEntry[e] = "done"
    THEN AfterCode(assets, lg)
    ELSE pc' = pc /\ log' = lg /\ UNCHANGED <<item, uploadCalls, prefix>>

\* readDirectory(this.codeDir) delivers the names
ListOk ==
    /\ pc = "readdir"
    /\ entry' = [e \in Entries(tree) |-> "stat"]
    /\ IF Entries(tree) = {} THEN AfterCode(assets, log)
       ELSE pc' = "code" /\ UNCHANGED <<log, item, uploadCalls, prefix>>
    /\ UNCHANGED <<config, isConnected, raised, assets, handler, saveCalls, reads, faults>>

\* a catch block that swallows the failure
CatchListFailureSilently(lg) == lg

\* the catch block of uploadCodeDir: one line for the whole directory
CatchListFailure(lg) == lg (+) One(CodeDirFailedLine)

\* readDirectory(this.codeDir) fails inside the try block
ListFail ==
    /\ pc = "readdir"
    /\ faults' = faults \cup {<<"list", <<codeDir>>>>}
    /\ AfterCode(assets, CatchListFailure(log))
    /\ UNCHANGED <<config, isConnected, raised, assets, entry, handler, saveCalls, reads>>

\* readStat of an entry fails: nothing in the callback catches it, and the
\* returned Promise.all is not awaited inside the try block
StatFail(e) ==
    /\ entry[e] = "stat"
    /\ entry' = [entry EXCEPT ![e] = "rejected"]
    /\ faults' = faults \cup {<<"stat", <<codeDir, e>>>>}
    /\ pc' = IF pc = "code" THEN "done" ELSE pc
    /\ raised' = (raised \/ pc = "code")
    /\ UNCHANGED <<config, isConnected, assets, handler, item, saveCalls, uploadCalls, prefix, reads, log>>

\* readStat of an entry succeeds
StatOk(e) ==
    /\ entry[e] = "stat"
    /\ IF e \in tree.dirs
       THEN IF HasBucket(e)
            THEN /\ entry' = [entry EXCEPT ![e] = "hlist"]
                 /\ UNCHANGED <<pc, log, item, uploadCalls, prefix>>
            ELSE /\ entry' = [entry EXCEPT ![e] = "done"]
                 /\ CodeSettle(entry', log)
       ELSE /\ entry' = [entry EXCEPT ![e] = "read"]
            /\ UNCHANGED <<pc, log, item, uploadCalls, prefix>>
    /\ UNCHANGED <<config, isConnected, raised, assets, handler, saveCalls, reads, faults>>

\* uploadCode: the file whose text is sent for (bucket, type)
CodeFile(bkt, type) ==
    IF type = ModuleT THEN <<codeDir, bkt \o DotJs>> ELSE <<codeDir, bkt, type \o DotJs>>

SaveCall(bkt, type, file, from) == [bucket |-> bkt, type |-> type, text |-> file, from |-> from]

ModuleLine(name, status) == Line("module", name, status, <<>>)

\* a plain file: uploadCode(moduleName), readFile delivers
ModuleReadOk(e) ==
    LET moduleName == StripDotJs(e)
        file == CodeFile(moduleName, ModuleT)
    IN /\ e \in tree.files
       /\ entry[e] = "read"
       /\ FileExists(tree, file)
       /\ reads' = reads \cup {file}
       /\ saveCalls' = saveCalls (+) One(SaveCall(moduleName, ModuleT, file, <<codeDir, e>>))
       /\ entry' = [entry EXCEPT ![e] = "save"]
       /\ UNCHANGED <<config, isConnected, pc, raised, assets, handler, item, uploadCalls, prefix, faults, log>>

ModuleReadFail(e) ==
    LET moduleName == StripDotJs(e)
        file == CodeFile(moduleName, ModuleT)
    IN /\ e \in tree.files
       /\ entry[e] = "read"
       /\ faults' = faults \cup {<<"read", file>>}
       /\ entry' = [entry EXCEPT ![e] = "done"]
       /\ CodeSettle(entry', log (+) One(ModuleLine(moduleName, "failed")))
       /\ UNCHANGED <<config, isConnected, raised, assets, handler, saveCalls, reads>>

ModuleSaveOk(e) ==
    /\ e \in tree.files
    /\ entry[e] = "save"
    /\ entry' = [entry EXCEPT ![e] = "done"]
    /\ CodeSettle(entry', log (+) One(ModuleLine(StripDotJs(e), "uploaded")))
    /\ UNCHANGED <<config, isConnected, raised, assets, handler, saveCalls, reads, faults>>

ModuleSaveFail(e) ==
    /\ e \in tree.files
    /\ entry[e] = "save"
    /\ faults' = faults \cup {<<"save", <<codeDir, e>>>>}
    /\ entry' = [entry EXCEPT ![e] = "done"]
    /\ CodeSettle(entry', log (+) One(ModuleLine(StripDotJs(e), "failed")))
    /\ UNCHANGED <<config, isConnected, raised, assets, handler, saveCalls, reads>>

\* ------------------------------------------------------------------------
\* uploadHandler(bucket)

HandlersFailedLine(d) == Line("handlers", d, "failed", <<>>)

HandlerLine(d, type) == Line("handler", d, "uploaded", type)

\* readDirectory of the handler directory delivers the names
HandlerListOk(d) ==
    /\ d \in tree.dirs
    /\ entry[d] = "hlist"
    /\ handler' = [df \in DOMAIN handler |-> IF df[1] = d THEN "read" ELSE handler[df]]
    /\ IF tree.inside[d] = {}
       THEN entry' = [entry EXCEPT ![d] = "done"] /\ CodeSettle(entry', log)
       ELSE entry' = [entry EXCEPT ![d] = "handlers"] /\ UNCHANGED <<pc, log, item, uploadCalls, prefix>>
    /\ UNCHANGED <<config, isConnected, raised, assets, saveCalls, reads, faults>>

\* readDirectory of the handler directory fails: caught by uploadCodeDir
HandlerListFail(d) ==
    /\ d \in tree.dirs
    /\ entry[d] = "hlist"
    /\ faults' = faults \cup {<<"list", <<codeDir, d>>>>}
    /\ entry' = [entry EXCEPT ![d] = "done"]
    /\ CodeSettle(entry', log (+) One(HandlersFailedLine(d)))
    /\ UNCHANGED <<config, isConnected, raised, assets, handler, saveCalls, reads>>

\* a handler callback of directory d has settled: Promise.all of
\* uploadHandler rejects on the first rejection and resolves when every
\* callback has resolved; uploadCodeDir awaits it inside try/catch
HandlerSettle(d, newHandler, rejectedNow, lg) ==
    IF entry[d] # "handlers"
    THEN UNCHANGED <<entry, pc, item, uploadCalls, prefix>> /\ log' = lg
    ELSE IF rejectedNow
    THEN /\ entry' = [entry EXCEPT ![d] = "done"]
         /\ CodeSettle(entry', lg (+) One(HandlersFailedLine(d)))
    ELSE IF \A df \in DOMAIN newHandler : df[1] = d => newHandler[df] = "resolved"
    THEN /\ entry' = [entry EXCEPT ![d] = "done"]
         /\ CodeSettle(entry', lg)
    ELSE UNCHANGED <<entry, pc, item, uploadCalls, prefix>> /\ log' = lg

\* uploadCode(bucket, handlerType): readFile delivers
HandlerReadOk(d, f) ==
    LET type == StripAnyJs(f)
        file == CodeFile(d, type)
    IN /\ <<d, f>> \in DOMAIN handler
       /\ handler[<<d, f>>] = "read"
       /\ FileExists(tree, file)
       /\ reads' = reads \cup {file}
       /\ IF type \notin codeTypes
          THEN /\ handler' = [handler EXCEPT ![<<d, f>>] = "resolved"]
               /\ saveCalls' = saveCalls
               /\ HandlerSettle(d, handler', FALSE, log (+) One(HandlerLine(d, type)))
          ELSE /\ handler' = [handler EXCEPT ![<<d, f>>] = "save"]
               /\ saveCalls' = saveCalls (+) One(SaveCall(d, type, file, <<codeDir, d, f>>))
               /\ UNCHANGED <<entry, pc, log, item, uploadCalls, prefix>>
       /\ UNCHANGED <<config, isConnected, raised, assets, faults>>

\* readFile fails: the file does not exist, or the read fails
HandlerReadFail(d, f) ==
    LET type == StripAnyJs(f)
        file == CodeFile(d, type)
    IN /\ <<d, f>> \in DOMAIN handler
       /\ handler[<<d, f>>] = "read"
       /\ faults' = faults \cup {<<"read", file>>}
       /\ handler' = [handler EXCEPT ![<<d, f>>] = "rejected"]
       /\ HandlerSettle(d, handler', TRUE, log)
       /\ UNCHANGED <<config, isConnected, raised, assets, saveCalls, reads>>

HandlerSaveOk(d, f) ==
    /\ <<d, f>> \in DOMAIN handler
    /\ handler[<<d, f>>] = "save"
    /\ handler' = [handler EXCEPT ![<<d, f>>] = "resolved"]
    /\ HandlerSettle(d, handler', FALSE, log (+) One(HandlerLine(d, StripAnyJs(f))))
    /\ UNCHANGED <<config, isConnected, raised, assets, saveCalls, reads, faults>>

HandlerSaveFail(d, f) ==
    /\ <<d, f>> \in DOMAIN handler
    /\ handler[<<d, f>>] = "save"
    /\ faults' = faults \cup {<<"save", <<codeDir, d, f>>>>}
    /\ handler' = [handler EXCEPT ![<<d, f>>] = "rejected"]
    /\ HandlerSettle(d, handler', TRUE, log)
    /\ UNCHANGED <<config, isConnected, raised, assets, saveCalls, reads>>

\* ------------------------------------------------------------------------
\* uploadFile(path, existsAt) and the callback of uploadFiles around it

PathOf(a) == RemotePath(bucket, DirPrefix(filePattern), a)

FileSettle(newItem, lg) ==
    /\ item' = newItem
    /\ log' = lg
    /\ pc' = FilesResult(newItem).pc
    /\ raised' = FilesResult(newItem).raised
    /\ UNCHANGED <<uploadCalls, prefix>>

\* readStat(existsAt) succeeds: the File is built and file.upload starts
FileStatOk(a) ==
    /\ a \in DOMAIN item
    /\ item[a] = "stat"
    /\ item' = [item EXCEPT ![a] = "upload"]
    /\ UNCHANGED <<config, isConnected, pc, raised, assets, entry, handler, saveCalls,
                   uploadCalls, prefix, reads, faults, log>>

FileStatFail(a) ==
    /\ a \in DOMAIN item
    /\ item[a] = "stat"
    /\ faults' = faults \cup {<<"fstat", <<a>>>>}
    /\ FileSettle([item EXCEPT ![a] = "failed"], log (+) One(Row(a, "failed", <<>>)))
    /\ UNCHANGED <<config, isConnected, assets, entry, handler, saveCalls, reads>>

FileUploadOk(a) ==
    /\ a \in DOMAIN item
    /\ item[a] = "upload"
    /\ FileSettle([item EXCEPT ![a] = "uploaded"], log (+) One(Row(a, "uploaded", PathOf(a))))
    /\ UNCHANGED <<config, isConnected, assets, entry, handler, saveCalls, reads, faults>>

FileUploadFail(a) ==
    /\ a \in DOMAIN item
    /\ item[a] = "upload"
    /\ faults' = faults \cup {<<"upload", <<a>>>>}
    /\ FileSettle([item EXCEPT ![a] = "failed"], log (+) One(Row(a, "failed", <<>>)))
    /\ UNCHANGED <<config, isConnected, assets, entry, handler, saveCalls, reads>>

\* ------------------------------------------------------------------------

Next ==
    \/ LoginResolve
    \/ LoginReject
    \/ ExecuteDeployment
    \/ ListOk
    \/ ListFail
    \/ \E e \in DOMAIN entry : StatOk(e)
    \/ \E e \in DOMAIN entry : StatFail(e)
    \/ \E e \in DOMAIN entry : ModuleReadOk(e)
    \/ \E e \in DOMAIN entry : ModuleReadFail(e)
    \/ \E e \in DOMAIN entry : ModuleSaveOk(e)
    \/ \E e \in DOMAIN entry : ModuleSaveFail(e)
    \/ \E d \in DOMAIN entry : HandlerListOk(d)
    \/ \E d \in DOMAIN entry : HandlerListFail(d)
    \/ \E df \in DOMAIN handler : HandlerReadOk(df[1], df[2])
    \/ \E df \in DOMAIN handler : HandlerReadFail(df[1], df[2])
    \/ \E df \in DOMAIN handler : HandlerSaveOk(df[1], df[2])
    \/ \E df \in DOMAIN handler : HandlerSaveFail(df[1], df[2])
    \/ \E a \in AssetNames : FileStatOk(a)
    \/ \E a \in AssetNames : FileStatFail(a)
    \/ \E a \in AssetNames : FileUploadOk(a)
    \/ \E a \in AssetNames : FileUploadFail(a)

Spec == Init /\ [][Next]_vars

\* ------------------------------------------------------------------------
\* Properties

LogHas(l) == BagIn(l, log)

UploadCalled(a) == \E c \in uploadCalls : c.existsAt = a

\* uploadFiles has been entered in this run
FilesStarted == LogHas(HeaderLine)

\* C1: once uploadFiles has run, an asset of the manifest has been passed
\* to uploadFile if and only if no pattern is configured or its name matches
\* the pattern; every other asset has its "skipped" row, and no uploadFile
\* call exists for it.
UploadedIffMatches ==
    /\ \A c \in uploadCalls : c.existsAt \in assets
    /\ FilesStarted =>
         \A a \in assets :
            LET matches == ~Truthy(filePattern) \/ anymatch(filePattern, a)
            IN /\ UploadCalled(a) <=> matches
               /\ LogHas(Row(a, "skipped", <<>>)) <=> ~matches
               /\ ~matches => item[a] = "skipped"

UploadedIffMatchesWitness ==
    /\ pc = "done"
    /\ Truthy(filePattern)
    /\ \E a, b \in assets :
          /\ LogHas(Row(a, "skipped", <<>>)) /\ ~UploadCalled(a)
          /\ UploadCalled(b) /\ item[b] = "uploaded"

\* the asset name with the prefix removed when the name starts with it
StripLeading(a, p) == IF StartsWith(a, p) THEN SubSeq(a, Len(p) + 1, Len(a)) ELSE a

\* C2: the remote path of every uploadFile call is "/" + bucket + "/" +
\* the asset name without one leading occurrence of the prefix, and the
\* asset name unchanged when it does not start with the prefix.
RemotePathStripsLeadingPrefix ==
    \A c \in uploadCalls :
        c.path = <<"/">> \o bucket \o <<"/">> \o StripLeading(c.existsAt, DirPrefix(filePattern))

AssetFaults == {f \in faults : f[1] \in {"fstat", "upload"}}

\* C3: when uploadFiles has completed, it has not raised, every included
\* asset was passed to uploadFile and has settled, and every included asset
\* whose stat and upload did not fail has its "uploaded" row, whichever
\* other assets failed.
SiblingUploadsComplete ==
    /\ pc = "files" => ~raised
    /\ (pc = "done" /\ FilesStarted) =>
         /\ ~raised
         /\ \A a \in Included(assets) :
               /\ UploadCalled(a)
               /\ item[a] \in {"uploaded", "failed"}
               /\ (\A f \in AssetFaults : f[2] # <<a>>) =>
                      item[a] = "uploaded" /\ LogHas(Row(a, "uploaded", PathOf(a)))
               /\ (\E f \in AssetFaults : f[2] = <<a>>) =>
                      item[a] = "failed" /\ LogHas(Row(a, "failed", <<>>))

SiblingUploadsCompleteWitness ==
    /\ pc = "done"
    /\ \E a, b \in assets :
          /\ <<"upload", <<a>>>> \in faults
          /\ item[b] = "uploaded"
          /\ LogHas(Row(b, "uploaded", PathOf(b)))

AssetLines == {l \in DOMAIN log : l.kind \in {"header", "row"}}

\* uploadCodeDir has been entered in this run
CodeStarted == LogHas(CodeDirFailedLine) \/ \E e \in DOMAIN entry : entry[e] # "none"

BucketOff == options.bucket = JsFalse

CodeDirOff == options.codeDir \in {JsFalse, JsUndefined}

\* C4: with the bucket option false there is no uploadFile call and no asset
\* line; with the codeDir option false or absent there is no saveCode call;
\* a finished run with a working connection has still run the code phase
\* when only the bucket is off, and the asset phase when only codeDir is off.
SwitchesDisablePhases ==
    /\ BucketOff => uploadCalls = {} /\ AssetLines = {}
    /\ CodeDirOff => saveCalls = EmptyBag /\ ~CodeStarted
    /\ (pc = "done" /\ isConnected = "resolved") =>
         /\ (BucketOff /\ ~CodeDirOff) => CodeStarted
         /\ (CodeDirOff /\ ~BucketOff) =>
                FilesStarted /\ ~raised /\ \A a \in Included(assets) : UploadCalled(a)

SwitchesDisablePhasesWitness ==
    /\ pc = "done"
    /\ BucketOff
    /\ assets # {}
    /\ saveCalls # EmptyBag

\* the code phase has no operation left
CodeQuiet ==
    /\ pc \notin {"idle", "connecting", "readdir"}
    /\ \A e \in DOMAIN entry : entry[e] \in {"done", "rejected"}
    /\ \A df \in DOMAIN handler : handler[df] \in {"none", "resolved", "rejected"}

ReadFaults == {f \in faults : f[1] \in {"list", "stat", "read"}}

BucketNames == {<<"m">>, TDir, UDir}

\* the saveCode calls made with the tag (b, t)
SaveCount(b, t) ==
    LET calls == {c \in DOMAIN saveCalls : c.bucket = b /\ c.type = t}
    IN IF \A c \in calls : CopiesIn(c, saveCalls) = 1 THEN Cardinality(calls) ELSE -1

\* the saveCode calls the code directory asks for with the tag (b, t)
WantedCount(b, t) ==
    Cardinality({e \in tree.files : e = b \o DotJs /\ t = ModuleT})
    + Cardinality({f \in (IF b \in tree.dirs /\ b \in DbBuckets THEN tree.inside[b] ELSE {}) :
                      f = t \o DotJs /\ t \in {ModuleT, UpdateT, InsertT, DeleteT, ValidateT}})

CodeLines == {l \in DOMAIN log : l.kind \in {"codeFailed", "module", "handlers", "handler"}}

\* C6: when the listing of codeDir has failed, the log has exactly one line
\* of the code phase, the line for the whole directory, no saveCode call is
\* made, executeDeployment does not raise, and with a bucket the run ends
\* with the asset phase run.
MissingCodeDirIsOneLine ==
    <<"list", <<codeDir>>>> \in faults =>
        /\ CodeLines = {CodeDirFailedLine}
        /\ CopiesIn(CodeDirFailedLine, log) = 1
        /\ saveCalls = EmptyBag
        /\ ~raised
        /\ bucket # JsFalse => FilesStarted /\ \A a \in Included(assets) : UploadCalled(a)
        /\ bucket = JsFalse => pc = "done"

MissingCodeDirIsOneLineWitness ==
    /\ <<"list", <<codeDir>>>> \in faults
    /\ pc = "done"
    /\ \E a \in DOMAIN item : item[a] = "uploaded"

CodeItemFaults ==
    {f \in faults : f[1] \in {"stat", "read", "save"} \/ (f[1] = "list" /\ Len(f[2]) = 2)}

\* C8: a failure of the stat, the read or the saveCode call of an entry of
\* the code directory does not reject executeDeployment, and the run ends
\* with every entry's callback returned and, with a bucket, the asset phase
\* run.
CodeItemFailureContained ==
    CodeItemFaults # {} =>
        /\ ~raised
        /\ pc = "done" =>
              /\ \A e \in DOMAIN entry : entry[e] = "done"
              /\ bucket # JsFalse => FilesStarted

\* a read or a saveCode call of the code phase is pending
CodePending ==
    \/ \E e \in DOMAIN entry : entry[e] \in {"read", "save"}
    \/ \E df \in DOMAIN handler : handler[df] \in {"read", "save"}

\* C9: while a file read or a saveCode call of a module or a handler is
\* pending, the code phase has not completed: the asset phase has not
\* started and executeDeployment has not finished.
CodePhaseAwaitsAllItems ==
    (CodePending /\ ~raised) => pc = "code"

\* C10: the text of every saveCode call made for a handler file
\* dir/type.js is the content of that file.
HandlerTextIsOwnFile ==
    \A c \in DOMAIN saveCalls : Len(c.from) = 3 => c.text = c.from

\* a "/" of the pattern with no *, { or } before it
LiteralSlash(pattern, k) == pattern[k] = "/" /\ \A i \in 1..(k - 1) : pattern[i] \notin GlobMeta

\* C11, as amended: once uploadFiles has run, the prefix is empty when no
\* pattern is configured, and otherwise it is the start of the pattern up
\* to and including the last "/" that has no *, { or } before it, empty
\* when the pattern has no such "/".
PrefixIsDirectoryPart ==
    FilesStarted =>
        IF ~Truthy(filePattern) THEN prefix = <<>>
        ELSE /\ StartsWith(filePattern, prefix)
             /\ prefix # <<>> => LiteralSlash(filePattern, Len(prefix))
             /\ \A k \in (Len(prefix) + 1)..Len(filePattern) : ~LiteralSlash(filePattern, k)

PrefixIsDirectoryPartWitness ==
    /\ FilesStarted
    /\ filePattern = <<"d", "/", "a", "*">>
    /\ prefix = <<"d", "/">>
    /\ \E c \in uploadCalls : c.existsAt = <<"d", "/", "a">> /\ c.path = <<"/">> \o bucket \o <<"/", "a">>

\* C11: once uploadFiles has run, the prefix is the start of the pattern
\* before its first *, { or }, and empty when no pattern is configured.
PrefixIsLiteralUpToMeta ==
    FilesStarted =>
        prefix = (IF Truthy(filePattern) THEN LiteralUpToMeta(filePattern) ELSE <<>>)

====
